---- MODULE Spec2Model ----
(***************************************************************************)
(* Replicated chat server (src/server.py): request applier over the three  *)
(* sqlite relations, Bully election, heartbeat monitor, commit merge.      *)
(***************************************************************************)
EXTENDS Integers, Sequences, FiniteSets, TLC

\* ------------------------------------------------------------------------
\* Cluster membership and bounds
\* ------------------------------------------------------------------------

\* servers 1..NumNodes (the fixed id -> address map)
NumNodes == 3

Nodes == 1..NumNodes

\* number of requests a node has answered before the runs of the catch-up
\* specification begin
MaxDeliveries == 3

\* total number of client Execute deliveries explored
MaxExec == 3

\* total number of process kills explored
MaxCrash == 1

\* Election handlers whose thread has not yet looked at the flag, per node
MaxPending == 1

None == 0

\* ------------------------------------------------------------------------
\* Requests (JSON objects; json.loads(json.dumps(r)) = r for these shapes,
\* so a request blob is represented by the object it encodes)
\* ------------------------------------------------------------------------

NoMsg == [id |-> "-", sender |-> "-", recipient |-> "-", body |-> "-", timestamp |-> 0]

Msg1 == [id |-> "m1", sender |-> "b", recipient |-> "a", body |-> "hi", timestamp |-> 1]

Req(id, rtype, action, username, password, message, message_ids, pattern) ==
    [id |-> id, request_type |-> rtype, action_type |-> action,
     username |-> username, password |-> password, message |-> message,
     message_ids |-> message_ids, pattern |-> pattern]

ReqCreateA == Req("r1", "AUTH", "CREATE_USER", "a", "p", NoMsg, {}, "-")
ReqCreateA2 == Req("r2", "AUTH", "CREATE_USER", "a", "q", NoMsg, {}, "-")
ReqDeleteA == Req("r3", "DELETE_USER", "-", "a", "-", NoMsg, {}, "-")
ReqSendA == Req("r4", "SEND_MESSAGE", "-", "-", "-", Msg1, {}, "-")
ReqLoginA == Req("r5", "AUTH", "LOGIN", "a", "p", NoMsg, {}, "-")
ReqLoginBad == Req("r6", "AUTH", "LOGIN", "a", "x", NoMsg, {}, "-")
ReqRead == Req("r7", "READ_MESSAGES", "-", "-", "-", NoMsg, {"m1"}, "-")
ReqDelMsgs == Req("r8", "DELETE_MESSAGES", "-", "-", "-", NoMsg, {"m1"}, "-")
ReqGet == Req("r9", "GET_MESSAGES", "-", "a", "-", NoMsg, {}, "-")
ReqList == Req("r10", "LIST_USERS", "-", "-", "-", NoMsg, {}, "*")
ReqUnknown == Req("r11", "CREATE_USER", "-", "a", "p", NoMsg, {}, "-")
ReqReadAgain == Req("r12", "READ_MESSAGES", "-", "-", "-", NoMsg, {"m1"}, "-")

\* every request a client of the applier may submit
AllRequests ==
    {ReqCreateA, ReqCreateA2, ReqDeleteA, ReqSendA, ReqLoginA, ReqLoginBad,
     ReqRead, ReqDelMsgs, ReqGet, ReqList, ReqUnknown}

\* the requests submitted to a node that starts on a database file with rows
StoreRequests ==
    {ReqCreateA, ReqCreateA2, ReqDeleteA, ReqSendA, ReqRead, ReqReadAgain}

\* the requests the api functions delete_user, list_users and create_user build
ClientRequests == {ReqDeleteA, ReqList, ReqUnknown}

\* the requests submitted in cluster runs
ClusterRequests == {ReqCreateA, ReqDeleteA}

\* ------------------------------------------------------------------------
\* Responses
\* ------------------------------------------------------------------------

\* execute_request returning "" for an id already seen
EmptyResponse == [kind |-> "empty", status |-> "-", error_message |-> "-",
                  messages |-> <<>>, usernames |-> {}]

Ok == [kind |-> "status", status |-> "OK", error_message |-> "-",
       messages |-> <<>>, usernames |-> {}]

create_error(error_message) ==
    [kind |-> "status", status |-> "ERROR", error_message |-> error_message,
     messages |-> <<>>, usernames |-> {}]

\* send_request's `response = None` before any node has answered
NoneResponse == [kind |-> "none", status |-> "-", error_message |-> "-",
                 messages |-> <<>>, usernames |-> {}]

\* an exception leaving the handler; no response is produced
Raised(exc) == [kind |-> "raise", status |-> "-", error_message |-> exc,
                messages |-> <<>>, usernames |-> {}]

\* ------------------------------------------------------------------------
\* Storage: the three relations created by init_db
\* ------------------------------------------------------------------------

CommitsColumns == <<"id", "request">>

MessagesColumns == <<"id", "sender", "recipient", "body", "timestamp", "read">>

UsersColumns == <<"username", "password">>

\* rows a database file may hold when the node opens it (CREATE TABLE IF NOT
\* EXISTS keeps them): user a; messages m1 and m2 to a, both unread
UserA == [username |-> "a", password |-> "p"]

Row1 == [id |-> "m1", sender |-> "b", recipient |-> "a", body |-> "hi", timestamp |-> 1,
         read |-> FALSE]

Row2 == [id |-> "m2", sender |-> "b", recipient |-> "a", body |-> "yo", timestamp |-> 2,
         read |-> FALSE]

StoredUsers == SUBSET {UserA}

StoredMessages == SUBSET {Row1, Row2}

EmptyDb == [users |-> {}, messages |-> {}, commits |-> <<>>]

Range(s) == {s[i] : i \in 1..Len(s)}

SetMax(S) == IF S = {} THEN 0 ELSE CHOOSE x \in S : \A y \in S : y <= x

\* the value of a one-element set: {e(x) : x \in {v}} binds v once for e
The(S) == CHOOSE x \in S : TRUE

\* SELECT MAX(id) FROM commits, 0 when the table is empty
get_latest_commit_id(commits) == SetMax({commits[i].id : i \in 1..Len(commits)})

\* (variant: the sequence counter skips a value on each insert)
InsertCommitGap(commits, request) ==
    Append(commits, [id |-> get_latest_commit_id(commits) + 2, request |-> request])

\* INSERT INTO commits (request) VALUES (?): AUTOINCREMENT primary key
InsertCommit(commits, request) ==
    Append(commits, [id |-> get_latest_commit_id(commits) + 1, request |-> request])

\* INSERT INTO users VALUES (?, ?)
InsertUser(users, username, password) ==
    users \cup {[username |-> username, password |-> password]}

\* DELETE FROM users WHERE username = ?
DeleteUser(users, username) == {u \in users : u.username # username}

\* the positional values bound by handle_send_message's INSERT
SendMessageValues(m) == <<m.id, m.sender, m.recipient, m.body, m.timestamp>>

\* INSERT INTO messages VALUES (?, ?, ?, ?, ?): without a column list sqlite
\* wants one value per column of the table, and the id is a primary key
InsertMessage(messages, values) ==
    IF Len(values) # Len(MessagesColumns)
      THEN [ok |-> FALSE, rows |-> messages]
      ELSE IF \E m \in messages : m.id = values[1]
             THEN [ok |-> FALSE, rows |-> messages]
             ELSE [ok |-> TRUE,
                   rows |-> messages \cup
                       {[id |-> values[1], sender |-> values[2], recipient |-> values[3],
                         body |-> values[4], timestamp |-> values[5], read |-> values[6]]}]

\* (variant: the WHERE clause dropped)
MarkReadAll(messages, ids) == {[m EXCEPT !.read = TRUE] : m \in messages}

\* UPDATE messages SET read = 1 WHERE id in (...)
MarkRead(messages, ids) ==
    {IF m.id \in ids THEN [m EXCEPT !.read = TRUE] ELSE m : m \in messages}

\* DELETE FROM messages WHERE id in (...)
DeleteMessages(messages, ids) == {m \in messages : m.id \notin ids}

\* username GLOB pattern, for the patterns the requests carry
GlobMatch(username, pattern) ==
    \/ pattern = "*"
    \/ pattern = username

RECURSIVE SortByTimestamp(_)
\* ORDER BY timestamp
SortByTimestamp(S) ==
    IF S = {} THEN <<>>
    ELSE LET m == CHOOSE x \in S : \A y \in S : x.timestamp <= y.timestamp
         IN <<m>> \o SortByTimestamp(S \ {m})

\* ------------------------------------------------------------------------
\* Transactions: `with sqlite3.connect(self.db_file) as db:` runs the
\* statements in one implicit transaction; db.commit() publishes them, an
\* exception or the death of the process rolls them back
\* ------------------------------------------------------------------------

\* (variant: handle_delete_user does not write to the commit log)
StatementsDeleteUnlogged(request) ==
    CASE request.request_type = "AUTH" -> <<"InsertUser", "InsertCommit">>
      [] request.request_type = "SEND_MESSAGE" -> <<"InsertMessage", "InsertCommit">>
      [] request.request_type = "READ_MESSAGES" -> <<"MarkRead", "InsertCommit">>
      [] request.request_type = "DELETE_MESSAGES" -> <<"DeleteMessages", "InsertCommit">>
      [] request.request_type = "DELETE_USER" -> <<"DeleteUser">>
      [] OTHER -> <<>>

\* the statements a handler issues once its validation has passed
Statements(request) ==
    CASE request.request_type = "AUTH" -> <<"InsertUser", "InsertCommit">>
      [] request.request_type = "SEND_MESSAGE" -> <<"InsertMessage", "InsertCommit">>
      [] request.request_type = "READ_MESSAGES" -> <<"MarkRead", "InsertCommit">>
      [] request.request_type = "DELETE_MESSAGES" -> <<"DeleteMessages", "InsertCommit">>
      [] request.request_type = "DELETE_USER" -> <<"DeleteUser", "InsertCommit">>
      [] OTHER -> <<>>

\* one db.execute(...) inside the open transaction
ExecStatement(db, request, stmt) ==
    CASE stmt = "InsertUser" ->
           [ok |-> TRUE,
            db |-> [db EXCEPT !.users = InsertUser(@, request.username, request.password)]]
      [] stmt = "InsertMessage" ->
           LET ins == InsertMessage(db.messages, SendMessageValues(request.message))
           IN [ok |-> ins.ok, db |-> [db EXCEPT !.messages = ins.rows]]
      [] stmt = "MarkRead" ->
           [ok |-> TRUE, db |-> [db EXCEPT !.messages = MarkRead(@, request.message_ids)]]
      [] stmt = "DeleteMessages" ->
           [ok |-> TRUE, db |-> [db EXCEPT !.messages = DeleteMessages(@, request.message_ids)]]
      [] stmt = "DeleteUser" ->
           [ok |-> TRUE, db |-> [db EXCEPT !.users = DeleteUser(@, request.username)]]
      [] stmt = "InsertCommit" ->
           [ok |-> TRUE, db |-> [db EXCEPT !.commits = InsertCommit(@, request)]]

RECURSIVE RunStatements(_, _, _)
\* the statements of one transaction in order, stopping at the first that raises
RunStatements(db, request, stmts) ==
    IF stmts = <<>> THEN [ok |-> TRUE, db |-> db]
    ELSE The({IF r.ok THEN RunStatements(r.db, request, Tail(stmts))
              ELSE [ok |-> FALSE, db |-> db] :
              r \in {ExecStatement(db, request, Head(stmts))}})

\* (variant: a connection in autocommit mode, each statement published at once)
VisibleAutocommit(durable, working) == working

\* what the database file holds while a transaction is open: the statements
\* run so far stay private to the connection until db.commit()
VisibleAfterStatement(durable, working) == durable

\* statements, then db.commit(); a raising statement rolls everything back
Transaction(db, request) ==
    The({IF r.ok THEN [db |-> r.db, resp |-> Ok]
         ELSE [db |-> db, resp |-> Raised("OperationalError")] :
         r \in {RunStatements(db, request, Statements(request))}})

\* ------------------------------------------------------------------------
\* Request handlers
\* ------------------------------------------------------------------------

Proceed == [kind |-> "proceed", status |-> "-", error_message |-> "-",
            messages |-> <<>>, usernames |-> {}]

UserExists(db, username) == \E u \in db.users : u.username = username

\* the part of handle_auth before its first write
ValidateAuth(db, request) ==
    IF request.action_type = "CREATE_USER"
      THEN IF UserExists(db, request.username)
             THEN create_error("Username already exists.")
             ELSE Proceed
    ELSE IF request.action_type = "LOGIN"
      THEN IF ~UserExists(db, request.username)
             THEN Raised("TypeError")
             ELSE LET u == CHOOSE x \in db.users : x.username = request.username
                  IN IF request.password # u.password
                       THEN create_error("Invalid username or password.")
                       ELSE Ok
    ELSE Raised("ValueError")

handle_auth(db, request) ==
    LET v == ValidateAuth(db, request)
    IN IF v = Proceed THEN Transaction(db, request) ELSE [db |-> db, resp |-> v]

handle_get_messages(db, request) ==
    The({[db |-> db,
          resp |-> [Ok EXCEPT !.messages =
                       [i \in 1..Len(rows) |->
                           [sender |-> rows[i].sender, body |-> rows[i].body,
                            timestamp |-> rows[i].timestamp, read |-> rows[i].read]]]] :
         rows \in {SortByTimestamp({m \in db.messages : m.recipient = request.username})}})

handle_list_users(db, request) ==
    [db |-> db,
     resp |-> [Ok EXCEPT !.usernames =
                  {u.username : u \in {x \in db.users : GlobMatch(x.username, request.pattern)}}]]

\* (variant: the recipient is not looked up)
ValidateSendMessageSkipped(db, request) == Proceed

\* the part of handle_send_message before its first write
ValidateSendMessage(db, request) ==
    IF ~UserExists(db, request.message.recipient)
      THEN create_error("Recipient does not exist.")
      ELSE Proceed

handle_send_message(db, request) ==
    LET v == ValidateSendMessage(db, request)
    IN IF v = Proceed THEN Transaction(db, request) ELSE [db |-> db, resp |-> v]

handle_read_messages(db, request) == Transaction(db, request)

handle_delete_messages(db, request) == Transaction(db, request)

handle_delete_user(db, request) == Transaction(db, request)

\* (variant: the default case answers OK)
ValidateDefaultOk(db, request) ==
    CASE request.request_type = "AUTH" -> ValidateAuth(db, request)
      [] request.request_type = "SEND_MESSAGE" -> ValidateSendMessage(db, request)
      [] request.request_type \in {"READ_MESSAGES", "DELETE_MESSAGES", "DELETE_USER"} -> Proceed
      [] request.request_type = "GET_MESSAGES" -> handle_get_messages(db, request).resp
      [] request.request_type = "LIST_USERS" -> handle_list_users(db, request).resp
      [] OTHER -> Ok

\* the reads a handler makes before it writes: Proceed, or the response it
\* returns (or the exception it raises) without writing
Validate(db, request) ==
    CASE request.request_type = "AUTH" -> ValidateAuth(db, request)
      [] request.request_type = "SEND_MESSAGE" -> ValidateSendMessage(db, request)
      [] request.request_type \in {"READ_MESSAGES", "DELETE_MESSAGES", "DELETE_USER"} -> Proceed
      [] request.request_type = "GET_MESSAGES" -> handle_get_messages(db, request).resp
      [] request.request_type = "LIST_USERS" -> handle_list_users(db, request).resp
      [] OTHER -> Raised("ValueError")

\* match request["request_type"]
Dispatch(db, request) ==
    CASE request.request_type = "AUTH" -> handle_auth(db, request)
      [] request.request_type = "GET_MESSAGES" -> handle_get_messages(db, request)
      [] request.request_type = "LIST_USERS" -> handle_list_users(db, request)
      [] request.request_type = "SEND_MESSAGE" -> handle_send_message(db, request)
      [] request.request_type = "READ_MESSAGES" -> handle_read_messages(db, request)
      [] request.request_type = "DELETE_MESSAGES" -> handle_delete_messages(db, request)
      [] request.request_type = "DELETE_USER" -> handle_delete_user(db, request)
      [] OTHER -> [db |-> db, resp |-> Raised("ValueError")]

\* (variant: the check on request_ids dropped)
IsDuplicateNever(request_ids, request) == FALSE

\* the duplicate check on self.request_ids
IsDuplicate(request_ids, request) == request.id \in request_ids

\* st = [db, request_ids]; the result carries the new state and the response
execute_request(st, request) ==
    IF IsDuplicate(st.request_ids, request)
      THEN [db |-> st.db, request_ids |-> st.request_ids, resp |-> EmptyResponse]
      ELSE The({IF h.resp.kind = "raise"
                  THEN [db |-> st.db, request_ids |-> st.request_ids, resp |-> h.resp]
                  ELSE [db |-> h.db, request_ids |-> st.request_ids \cup {request.id},
                        resp |-> h.resp] :
                h \in {Dispatch(st.db, request)}})

RECURSIVE apply_commits(_, _)
\* execute_request for each commit in list order; an exception ends the loop
apply_commits(st, commits) ==
    IF commits = <<>> THEN [db |-> st.db, request_ids |-> st.request_ids, raised |-> FALSE]
    ELSE The({IF r.resp.kind = "raise"
                THEN [db |-> r.db, request_ids |-> r.request_ids, raised |-> TRUE]
                ELSE apply_commits([db |-> r.db, request_ids |-> r.request_ids],
                                   Tail(commits)) :
              r \in {execute_request(st, Head(commits).request)}})

\* SELECT request FROM commits, then the id of each
get_request_ids(commits) == {commits[i].request.id : i \in 1..Len(commits)}

\* SELECT id, request FROM commits ORDER BY id
get_all_commits(commits) == commits

\* ------------------------------------------------------------------------
\* Node-to-node RPC handlers, as functions of the receiver's state
\* ------------------------------------------------------------------------

\* the columns named by GetCommits's SELECT
GetCommitsSelect == {"id", "query"}

\* SELECT id, query FROM commits WHERE id > ? ORDER BY id: a column the
\* table lacks makes execute() raise, and the caller sees an RpcError
GetCommits(commits, latest_commit_id) ==
    IF GetCommitsSelect \subseteq Range(CommitsColumns)
      THEN [ok |-> TRUE,
            commits |-> SelectSeq(commits, LAMBDA c : c.id > latest_commit_id)]
      ELSE [ok |-> FALSE, commits |-> <<>>]

\* new_commits = [commit for commit in commit_history if commit.id > latest_commit_id]
NewCommits(commit_history, latest_commit_id) ==
    SelectSeq(commit_history, LAMBDA c : c.id > latest_commit_id)

\* (variant: the assertion compiled out)
CoordinatorAssertOff(server_id, leader) == TRUE

\* assert request.leader_id > self.server_id
CoordinatorAssert(server_id, leader) == leader > server_id

\* (variant: the leader is installed without the merge)
CoordinatorSkipsMerge(st, server_id, leader, commit_history) ==
    IF ~CoordinatorAssert(server_id, leader)
      THEN [ack |-> FALSE, db |-> st.db, request_ids |-> st.request_ids,
            leader_id |-> st.leader_id]
      ELSE [ack |-> TRUE, db |-> st.db, request_ids |-> st.request_ids,
            leader_id |-> leader]

\* Coordinator on node server_id with state st = [db, request_ids, leader_id]
Coordinator(st, server_id, leader, commit_history) ==
    IF ~CoordinatorAssert(server_id, leader)
      THEN [ack |-> FALSE, db |-> st.db, request_ids |-> st.request_ids,
            leader_id |-> st.leader_id]
      ELSE The({IF a.raised
                  THEN [ack |-> FALSE, db |-> a.db, request_ids |-> a.request_ids,
                        leader_id |-> st.leader_id]
                  ELSE [ack |-> TRUE, db |-> a.db, request_ids |-> a.request_ids,
                        leader_id |-> leader] :
                a \in {apply_commits([db |-> st.db, request_ids |-> st.request_ids],
                                     NewCommits(commit_history,
                                                get_latest_commit_id(st.db.commits)))}})

\* ------------------------------------------------------------------------
\* State
\* ------------------------------------------------------------------------

VARIABLES
    users,                  \* users table of each node's database file
    messages,               \* messages table
    commits,                \* commits table, as the list ORDER BY id
    tx,                     \* the transaction the Execute handler has open
    request_ids,            \* self.request_ids
    leader_id,              \* self.leader_id (None = 0)
    election_in_progress,   \* self.election_in_progress
    status,                 \* "down", "init" (inside __init__) or "up" (serving)
    lock,                   \* holder of self.lock, or "free"
    pc,                     \* position of each thread of each node
    election_accepted,      \* start_election's local of each thread
    peer,                   \* loop cursor of each thread over id_to_addr
    hbLeader,               \* send_heartbeats's local leader_id
    lastCall,               \* what the Execute handler last returned
    missed,                 \* per node: requests committed elsewhere while it was down
    responded,              \* per thread: some peer answered this round's Election
    announce,               \* per node: outcome of each Coordinator of its broadcast
    pending,                \* per node: spawned election threads not yet started
    nCrash,                 \* kills so far
    nExec,                  \* client deliveries so far
    timedOut,               \* an Election RPC to a serving peer has timed out
    client,                 \* the api client's send_request call: locals and outcome
    shutdown,               \* per node: self.shutdown, and whether stop() has returned
    lateLeader              \* per node: the leader a Coordinator installed after the
                            \* running round had sent all its Election RPCs

vars == <<users, messages, commits, tx, request_ids, leader_id, election_in_progress,
          status, lock, pc, election_accepted, peer, hbLeader, lastCall, missed,
          responded, announce, pending, nCrash, nExec, timedOut, client, shutdown,
          lateLeader>>

dbVars == <<users, messages, commits>>

\* the state of the server processes
nodeVars == <<users, messages, commits, tx, request_ids, leader_id, election_in_progress,
              status, lock, pc, election_accepted, peer, hbLeader, lastCall, missed,
              responded, announce, pending, nCrash, nExec, timedOut, lateLeader>>

\* the heartbeat thread and the threads an Election handler can have spawned
Spawned == {"e1"}

Threads == {"hb"} \cup Spawned

Cursors == {"main"} \cup Threads

Db(n) == [users |-> users[n], messages |-> messages[n], commits |-> commits[n]]

\* what the applier works on: the database file and self.request_ids
StateOf(n) == [db |-> Db(n), request_ids |-> request_ids[n]]

NoTx == [active |-> FALSE, request |-> ReqCreateA, before |-> EmptyDb,
         working |-> EmptyDb, todo |-> <<>>]

\* no send_request call has been made
NoClient == [pc |-> "idle", request |-> ReqList, at |-> 0, response |-> NoneResponse,
             tried |-> {}, answered |-> {}, issued |-> {}]

NoCall == [node |-> 0, id |-> "-", call |-> 0, fresh |-> FALSE, stmts |-> 0,
           resp |-> EmptyResponse]

\* (variant: start_election does not skip the peers with a lower id)
NextPeerAny(n, after, higherOnly) ==
    LET C == {p \in Nodes : p > after /\ p # n}
    IN IF C = {} THEN 0 ELSE CHOOSE p \in C : \A q \in C : p <= q

\* for peer_id in self.id_to_addr: the first id above `after` that passes the filter
NextPeer(n, after, higherOnly) ==
    LET C == {p \in Nodes : p > after /\ p # n /\ (higherOnly => p > n)}
    IN IF C = {} THEN 0 ELSE CHOOSE p \in C : \A q \in C : p <= q

\* where a thread goes when start_election returns
Rest(t) == IF t = "hb" THEN "sleep" ELSE "idle"

IdlePc == [t \in Threads |-> "idle"]

ZeroCursor == [t \in Cursors |-> 0]

NoLocals == [t \in Threads |-> TRUE]

NoResponse == [t \in Threads |-> FALSE]

NoAnnounce == [p \in Nodes |-> "-"]

\* ids appended to a commit log by a step
Appended(old, new) == get_request_ids(new) \ get_request_ids(old)

\* a node that is down misses what the others commit meanwhile
MissedAfter(ids) ==
    [n \in Nodes |-> IF status[n] = "down" THEN missed[n] \cup ids ELSE missed[n]]

\* install the state st = [db, request_ids] an applier call leaves on node n
SetNodeState(n, st) ==
    /\ users' = [users EXCEPT ![n] = st.db.users]
    /\ messages' = [messages EXCEPT ![n] = st.db.messages]
    /\ commits' = [commits EXCEPT ![n] = st.db.commits]
    /\ request_ids' = [request_ids EXCEPT ![n] = st.request_ids]

\* the cluster after `make clean` and start_all: empty databases, every node
\* constructed and serving, its heartbeat thread about to take its first look
Init ==
    /\ users = [n \in Nodes |-> {}]
    /\ messages = [n \in Nodes |-> {}]
    /\ commits = [n \in Nodes |-> <<>>]
    /\ tx = [n \in Nodes |-> NoTx]
    /\ request_ids = [n \in Nodes |-> {}]
    /\ leader_id = [n \in Nodes |-> None]
    /\ election_in_progress = [n \in Nodes |-> FALSE]
    /\ status = [n \in Nodes |-> "up"]
    /\ lock = [n \in Nodes |-> "free"]
    /\ pc = [n \in Nodes |-> [IdlePc EXCEPT !["hb"] = "sleep"]]
    /\ election_accepted = [n \in Nodes |-> NoLocals]
    /\ peer = [n \in Nodes |-> ZeroCursor]
    /\ hbLeader = [n \in Nodes |-> None]
    /\ lastCall = NoCall
    /\ missed = [n \in Nodes |-> {}]
    /\ responded = [n \in Nodes |-> NoResponse]
    /\ announce = [n \in Nodes |-> NoAnnounce]
    /\ pending = [n \in Nodes |-> 0]
    /\ nCrash = 0
    /\ nExec = 0
    /\ timedOut = FALSE
    /\ client = NoClient
    /\ shutdown = [n \in Nodes |-> "clear"]
    /\ lateLeader = [n \in Nodes |-> None]

\* ------------------------------------------------------------------------
\* Execute: the whole handler in one step (it runs under self.lock)
\* ------------------------------------------------------------------------

Execute(n, request) ==
    /\ status[n] = "up"
    /\ lock[n] = "free"
    /\ ~tx[n].active
    /\ nExec < MaxExec
    /\ nExec' = nExec + 1
    /\ \E r \in {execute_request(StateOf(n), request)} :
          /\ SetNodeState(n, r)
          /\ missed' = MissedAfter(Appended(commits[n], r.db.commits))
    /\ UNCHANGED <<tx, leader_id, election_in_progress, status, lock, pc,
                   election_accepted, peer, hbLeader, lastCall, responded, announce,
                   pending, nCrash, timedOut>>
    /\ UNCHANGED <<client, shutdown, lateLeader>>

\* ------------------------------------------------------------------------
\* Execute, statement by statement (to place a kill between two statements)
\* ------------------------------------------------------------------------

\* the outcome of the current call: its number, whether the id was new to
\* the node, how many statements of its transaction ran, what came back
Returned(n, request, call, stmts, resp) ==
    [node |-> n, id |-> request.id, call |-> call,
     fresh |-> request.id \notin request_ids[n], stmts |-> stmts, resp |-> resp]

\* take the lock, check for a duplicate, dispatch, run the handler's reads;
\* a handler that has nothing to write returns here
ExecuteBegin(n, request) ==
    /\ status[n] = "up"
    /\ lock[n] = "free"
    /\ ~tx[n].active
    /\ nExec < MaxExec
    /\ nExec' = nExec + 1
    /\ \E v \in {IF IsDuplicate(request_ids[n], request) THEN EmptyResponse
                  ELSE Validate(Db(n), request)} :
          IF v = Proceed
            THEN /\ tx' = [tx EXCEPT ![n] = [active |-> TRUE, request |-> request,
                                             before |-> Db(n), working |-> Db(n),
                                             todo |-> Statements(request)]]
                 /\ lock' = [lock EXCEPT ![n] = "rpc"]
                 /\ UNCHANGED <<request_ids, lastCall>>
            ELSE /\ request_ids' = [request_ids EXCEPT ![n] =
                        IF v.kind = "status" THEN @ \cup {request.id} ELSE @]
                 /\ lastCall' = Returned(n, request, nExec + 1, 0, v)
                 /\ UNCHANGED <<tx, lock>>
    /\ UNCHANGED <<dbVars, leader_id, election_in_progress, status, pc,
                   election_accepted, peer, hbLeader, missed, responded, announce,
                   pending, nCrash, timedOut>>
    /\ UNCHANGED <<client, shutdown, lateLeader>>

\* the next db.execute(...) of the open transaction
ExecuteStatement(n) ==
    /\ status[n] = "up"
    /\ tx[n].active
    /\ tx[n].todo # <<>>
    /\ \E r \in {ExecStatement(tx[n].working, tx[n].request, Head(tx[n].todo))} :
          IF r.ok
            THEN /\ tx' = [tx EXCEPT ![n].working = r.db, ![n].todo = Tail(@)]
                 /\ \E v \in {VisibleAfterStatement(Db(n), r.db)} :
                       /\ users' = [users EXCEPT ![n] = v.users]
                       /\ messages' = [messages EXCEPT ![n] = v.messages]
                       /\ commits' = [commits EXCEPT ![n] = v.commits]
                 /\ UNCHANGED <<lock, lastCall>>
            ELSE \* the exception leaves the with-blocks: rollback, lock released
                 /\ tx' = [tx EXCEPT ![n] = NoTx]
                 /\ lock' = [lock EXCEPT ![n] = "free"]
                 /\ lastCall' = Returned(n, tx[n].request, nExec,
                                         Len(Statements(tx[n].request)) - Len(tx[n].todo),
                                         Raised("OperationalError"))
                 /\ UNCHANGED dbVars
    /\ UNCHANGED <<request_ids, leader_id, election_in_progress, status, pc,
                   election_accepted, peer, hbLeader, missed, responded, announce, pending, nCrash, nExec, timedOut>>
    /\ UNCHANGED <<client, shutdown, lateLeader>>

\* db.commit(), self.request_ids.add(...), the response, the lock released
ExecuteCommit(n) ==
    /\ status[n] = "up"
    /\ tx[n].active
    /\ tx[n].todo = <<>>
    /\ users' = [users EXCEPT ![n] = tx[n].working.users]
    /\ messages' = [messages EXCEPT ![n] = tx[n].working.messages]
    /\ commits' = [commits EXCEPT ![n] = tx[n].working.commits]
    /\ request_ids' = [request_ids EXCEPT ![n] = @ \cup {tx[n].request.id}]
    /\ missed' = MissedAfter(Appended(commits[n], tx[n].working.commits))
    /\ lastCall' = Returned(n, tx[n].request, nExec, Len(Statements(tx[n].request)), Ok)
    /\ tx' = [tx EXCEPT ![n] = NoTx]
    /\ lock' = [lock EXCEPT ![n] = "free"]
    /\ UNCHANGED <<leader_id, election_in_progress, status, pc,
                   election_accepted, peer, hbLeader, responded, announce, pending, nCrash, nExec, timedOut>>
    /\ UNCHANGED <<client, shutdown, lateLeader>>

\* ------------------------------------------------------------------------
\* Process death and restart
\* ------------------------------------------------------------------------

\* the process is killed: memory is gone, the database file keeps what was
\* visible in it, an open transaction is rolled back by sqlite on next open
Crash(n) ==
    /\ status[n] # "down"
    /\ nCrash < MaxCrash
    /\ nCrash' = nCrash + 1
    /\ status' = [status EXCEPT ![n] = "down"]
    /\ tx' = [tx EXCEPT ![n] = NoTx]
    /\ request_ids' = [request_ids EXCEPT ![n] = {}]
    /\ leader_id' = [leader_id EXCEPT ![n] = None]
    /\ election_in_progress' = [election_in_progress EXCEPT ![n] = FALSE]
    /\ lock' = [lock EXCEPT ![n] = "free"]
    /\ pc' = [pc EXCEPT ![n] = IdlePc]
    /\ election_accepted' = [election_accepted EXCEPT ![n] = NoLocals]
    /\ peer' = [peer EXCEPT ![n] = ZeroCursor]
    /\ hbLeader' = [hbLeader EXCEPT ![n] = None]
    /\ missed' = [missed EXCEPT ![n] = {}]
    /\ responded' = [responded EXCEPT ![n] = NoResponse]
    /\ announce' = [announce EXCEPT ![n] = NoAnnounce]
    /\ pending' = [pending EXCEPT ![n] = 0]
    /\ lastCall' =
          IF tx[n].active
            THEN Returned(n, tx[n].request, nExec,
                          Len(Statements(tx[n].request)) - Len(tx[n].todo),
                          Raised("Killed"))
            ELSE IF lastCall.node = n THEN NoCall ELSE lastCall
    /\ UNCHANGED <<dbVars, nExec, timedOut>>
    /\ shutdown' = [shutdown EXCEPT ![n] = "clear"]
    /\ lateLeader' = [lateLeader EXCEPT ![n] = None]
    /\ UNCHANGED client

\* (variant: request_ids is not reloaded from the commit log)
RestartForgetful(n) ==
    /\ status[n] = "down"
    /\ status' = [status EXCEPT ![n] = "init"]
    /\ request_ids' = [request_ids EXCEPT ![n] = {}]
    /\ leader_id' = [leader_id EXCEPT ![n] = None]
    /\ peer' = [peer EXCEPT ![n]["main"] = NextPeer(n, 0, FALSE)]
    /\ UNCHANGED <<dbVars, tx, election_in_progress, lock, pc, election_accepted,
                   hbLeader, lastCall, missed, responded, announce, pending, nCrash, nExec, timedOut>>
    /\ UNCHANGED <<client, shutdown, lateLeader>>

\* __init__ up to synchronize_commits: init_db keeps existing tables,
\* request_ids is reloaded from the commit log, leader_id = None
Restart(n) ==
    /\ status[n] = "down"
    /\ status' = [status EXCEPT ![n] = "init"]
    /\ request_ids' = [request_ids EXCEPT ![n] = get_request_ids(commits[n])]
    /\ leader_id' = [leader_id EXCEPT ![n] = None]
    /\ peer' = [peer EXCEPT ![n]["main"] = NextPeer(n, 0, FALSE)]
    /\ UNCHANGED <<dbVars, tx, election_in_progress, lock, pc, election_accepted,
                   hbLeader, lastCall, missed, responded, announce, pending, nCrash, nExec, timedOut>>
    /\ UNCHANGED <<client, shutdown, lateLeader>>

\* ------------------------------------------------------------------------
\* synchronize_commits, one peer per step
\* ------------------------------------------------------------------------

\* (variant: the gRPC server is started before the ChatServer is constructed)
ServingFromInit(p) == status[p] # "down"

\* a peer answers only once it serves (server.start() follows __init__)
Serving(p) == status[p] = "up"

\* (variant: start_election runs its three steps outside the mutex)
CanEnterWhileHeld(p) == ~tx[p].active

\* a handler that takes the peer's mutex waits while it is held
CanEnter(p) == lock[p] = "free" /\ ~tx[p].active

\* stub.GetCommits(...) to p and apply_commits on the answer; an RpcError
\* (peer not serving, or the handler raised) is swallowed
SyncWith(n, p) ==
    IF ~Serving(p) THEN [db |-> Db(n), request_ids |-> request_ids[n], raised |-> FALSE]
    ELSE The({IF ~g.ok
                THEN [db |-> Db(n), request_ids |-> request_ids[n], raised |-> FALSE]
                ELSE apply_commits(StateOf(n), g.commits) :
              g \in {GetCommits(commits[p], get_latest_commit_id(commits[n]))}})

\* __init__: synchronize_commits before the node serves; after the last peer
\* election_in_progress = False, the heartbeat thread starts, server.start()
InitSync(n) ==
    /\ status[n] = "init"
    /\ peer[n]["main"] # 0
    /\ \E p \in {peer[n]["main"]} : \E r \in {SyncWith(n, p)} :
       \E next \in {NextPeer(n, p, FALSE)} :
          /\ Serving(p) => CanEnter(p)
          /\ SetNodeState(n, r)
          /\ peer' = [peer EXCEPT ![n]["main"] = IF r.raised THEN 0 ELSE next]
          /\ status' = [status EXCEPT ![n] =
                IF r.raised THEN "down" ELSE IF next = 0 THEN "up" ELSE "init"]
          /\ pc' = [pc EXCEPT ![n]["hb"] =
                IF ~r.raised /\ next = 0 THEN "sleep" ELSE @]
          /\ missed' = [q \in Nodes |->
                IF q = n THEN (IF ~r.raised /\ next = 0 THEN {} ELSE missed[n])
                ELSE MissedAfter(Appended(commits[n], r.db.commits))[q]]
    /\ UNCHANGED <<tx, leader_id, election_in_progress, lock, election_accepted,
                   hbLeader, lastCall, responded, announce, pending, nCrash, nExec, timedOut>>
    /\ UNCHANGED <<client, shutdown, lateLeader>>

\* ------------------------------------------------------------------------
\* send_heartbeats
\* ------------------------------------------------------------------------

\* (variant: the leader sends a Heartbeat to itself as well)
HeartbeatBranchProbesSelf(leader, server_id) ==
    IF leader = None THEN "start" ELSE "probe"

\* if leader_id is None: start_election(); elif leader_id != self.server_id:
\* Heartbeat to it; else nothing until the next period
HeartbeatBranch(leader, server_id) ==
    IF leader = None THEN "start" ELSE IF leader # server_id THEN "probe" ELSE "sleep"

\* while not self.shutdown.is_set(): with self.lock: leader_id =
\* self.leader_id, then the branch on it
HbSnapshot(n) ==
    /\ status[n] = "up"
    /\ pc[n]["hb"] = "sleep"
    /\ shutdown[n] = "clear"
    /\ CanEnter(n)
    /\ hbLeader' = [hbLeader EXCEPT ![n] =
          IF leader_id[n] \notin {None, n} THEN leader_id[n] ELSE None]
    /\ pc' = [pc EXCEPT ![n]["hb"] = HeartbeatBranch(leader_id[n], n)]
    /\ UNCHANGED <<dbVars, tx, request_ids, leader_id, election_in_progress, status,
                   lock, election_accepted, peer, lastCall, missed, responded,
                   announce, pending, nCrash, nExec, timedOut>>
    /\ UNCHANGED <<client, shutdown, lateLeader>>

\* stub.Heartbeat(...) to the snapshotted leader; the handler takes no lock.
\* The local leader_id is kept for the except branch.
HbProbe(n) ==
    /\ status[n] = "up"
    /\ pc[n]["hb"] = "probe"
    /\ pc' = [pc EXCEPT ![n]["hb"] = IF Serving(hbLeader[n]) THEN "sleep" ELSE "clear"]
    /\ hbLeader' = [hbLeader EXCEPT ![n] = IF Serving(hbLeader[n]) THEN None ELSE @]
    /\ UNCHANGED <<dbVars, tx, request_ids, leader_id, election_in_progress, status,
                   lock, election_accepted, peer, lastCall, missed,
                   responded, announce, pending, nCrash, nExec, timedOut>>
    /\ UNCHANGED <<client, shutdown, lateLeader>>

\* except grpc.RpcError: with self.lock: self.leader_id = None
HbClear(n) ==
    /\ status[n] = "up"
    /\ pc[n]["hb"] = "clear"
    /\ CanEnter(n)
    /\ leader_id' = [leader_id EXCEPT ![n] = None]
    /\ pc' = [pc EXCEPT ![n]["hb"] = "sleep"]
    /\ hbLeader' = [hbLeader EXCEPT ![n] = None]
    /\ UNCHANGED <<dbVars, tx, request_ids, election_in_progress, status, lock,
                   election_accepted, peer, lastCall, missed, responded,
                   announce, pending, nCrash, nExec, timedOut>>
    /\ UNCHANGED <<client, shutdown, lateLeader>>

\* ------------------------------------------------------------------------
\* start_election (run by the heartbeat thread, or by a thread the Election
\* handler spawned)
\* ------------------------------------------------------------------------

\* (variant: the flag is not consulted)
AlreadyElectingIgnored(flag) == FALSE

\* the check under the lock: an election already in progress means return
AlreadyElecting(flag) == flag

\* with self.lock: if self.election_in_progress: return; else clear the
\* leader and set the flag
ElStart(n, t) ==
    /\ status[n] = "up"
    /\ CanEnter(n)
    /\ IF t = "hb"
         THEN pc[n][t] = "start" /\ UNCHANGED pending
         ELSE /\ pending[n] > 0
              /\ AlreadyElecting(election_in_progress[n]) \/ pc[n][t] = "idle"
              /\ pending' = [pending EXCEPT ![n] = @ - 1]
    /\ IF AlreadyElecting(election_in_progress[n])
         THEN /\ pc' = [pc EXCEPT ![n][t] = IF t = "hb" THEN Rest(t) ELSE @]
              /\ UNCHANGED <<leader_id, election_in_progress, election_accepted, peer,
                             responded, lateLeader>>
         ELSE /\ leader_id' = [leader_id EXCEPT ![n] = None]
              /\ lateLeader' = [lateLeader EXCEPT ![n] = None]
              /\ election_in_progress' = [election_in_progress EXCEPT ![n] = TRUE]
              /\ election_accepted' = [election_accepted EXCEPT ![n][t] = TRUE]
              /\ responded' = [responded EXCEPT ![n][t] = FALSE]
              /\ LET first == NextPeer(n, 0, TRUE)
                 IN /\ peer' = [peer EXCEPT ![n][t] = first]
                    /\ pc' = [pc EXCEPT ![n][t] = IF first = 0 THEN "decide" ELSE "elect"]
    /\ UNCHANGED <<dbVars, tx, request_ids, status, lock, hbLeader, lastCall, missed,
                   announce, nCrash, nExec, timedOut>>
    /\ UNCHANGED <<client, shutdown>>

\* assert request.candidate_id < self.server_id
ElectionAssert(server_id, candidate_id) == candidate_id < server_id

\* threading.Thread(target=self.start_election).start(): one more thread
\* that has yet to take the lock and look at the flag
SpawnElection(k) == IF k < MaxPending THEN k + 1 ELSE k

\* (variant: the flag is cleared on a failed call instead of an answered one)
AfterElectionRpcInverted(accepted, answered) == IF answered THEN accepted ELSE FALSE

\* election_accepted after one Election RPC
AfterElectionRpc(accepted, answered) == IF answered THEN FALSE ELSE accepted

\* stub.Election(..., timeout=ELECTION_TIMEOUT) to the next higher peer.
\* The peer answers when it serves and its assertion holds; the call fails
\* when the peer does not serve, and may time out while the peer's mutex is
\* held (its only worker can be stuck in a handler waiting for the mutex).
ElSend(n, t, answered) ==
    /\ status[n] = "up"
    /\ pc[n][t] = "elect"
    /\ LET p == peer[n][t]
           next == NextPeer(n, p, TRUE)
       IN /\ IF answered
               THEN Serving(p) /\ ElectionAssert(p, n)
               ELSE ~Serving(p) \/ ~ElectionAssert(p, n) \/ lock[p] # "free"
          /\ pc' = [pc EXCEPT ![n][t] = IF next = 0 THEN "decide" ELSE "elect"]
          /\ pending' = [pending EXCEPT ![p] = IF answered THEN SpawnElection(@) ELSE @]
          /\ peer' = [peer EXCEPT ![n][t] = next]
          /\ election_accepted' =
                [election_accepted EXCEPT ![n][t] = AfterElectionRpc(@, answered)]
          /\ responded' = [responded EXCEPT ![n][t] = @ \/ answered]
          /\ timedOut' = (timedOut \/ (~answered /\ Serving(p) /\ ElectionAssert(p, n)))
    /\ UNCHANGED <<dbVars, tx, request_ids, leader_id, election_in_progress, status,
                   lock, hbLeader, lastCall, missed, announce, nCrash, nExec>>
    /\ UNCHANGED <<client, shutdown, lateLeader>>

\* if election_accepted: with self.lock: (the critical section begins)
ElWin(n, t) ==
    /\ status[n] = "up"
    /\ pc[n][t] = "decide"
    /\ election_accepted[n][t]
    /\ CanEnter(n)
    /\ lock' = [lock EXCEPT ![n] = t]
    /\ pc' = [pc EXCEPT ![n][t] = "sync"]
    /\ peer' = [peer EXCEPT ![n][t] = NextPeer(n, 0, FALSE)]
    /\ announce' = [announce EXCEPT ![n] = NoAnnounce]
    /\ UNCHANGED <<dbVars, tx, request_ids, leader_id, election_in_progress, status,
                   election_accepted, hbLeader, lastCall, missed, responded, pending, nCrash, nExec, timedOut>>
    /\ UNCHANGED <<client, shutdown, lateLeader>>

\* (variant: the loser leaves the flag set)
ElLoseKeepsFlag(n, t) ==
    /\ status[n] = "up"
    /\ pc[n][t] = "decide"
    /\ ~election_accepted[n][t]
    /\ CanEnter(n)
    /\ pc' = [pc EXCEPT ![n][t] = Rest(t)]
    /\ election_accepted' = [election_accepted EXCEPT ![n][t] = TRUE]
    /\ responded' = [responded EXCEPT ![n][t] = FALSE]
    /\ lateLeader' = [lateLeader EXCEPT ![n] = None]
    /\ UNCHANGED <<dbVars, tx, request_ids, leader_id, election_in_progress, status, lock,
                   peer, hbLeader, lastCall, missed, announce, pending, nCrash, nExec, timedOut>>
    /\ UNCHANGED <<client, shutdown>>

\* else: with self.lock: self.election_in_progress = False
ElLose(n, t) ==
    /\ status[n] = "up"
    /\ pc[n][t] = "decide"
    /\ ~election_accepted[n][t]
    /\ CanEnter(n)
    /\ election_in_progress' = [election_in_progress EXCEPT ![n] = FALSE]
    /\ pc' = [pc EXCEPT ![n][t] = Rest(t)]
    /\ election_accepted' = [election_accepted EXCEPT ![n][t] = TRUE]
    /\ responded' = [responded EXCEPT ![n][t] = FALSE]
    /\ lateLeader' = [lateLeader EXCEPT ![n] = None]
    /\ UNCHANGED <<dbVars, tx, request_ids, leader_id, status, lock,
                   peer, hbLeader, lastCall, missed, announce, pending, nCrash, nExec, timedOut>>
    /\ UNCHANGED <<client, shutdown>>

\* self.synchronize_commits() inside the critical section, one peer per step;
\* an exception out of apply_commits leaves the with-block (lock released)
\* and ends the thread with the flag still set
ElSync(n, t) ==
    /\ status[n] = "up"
    /\ pc[n][t] = "sync"
    /\ \E p \in {peer[n][t]} : \E r \in {SyncWith(n, p)} :
       \E next \in {NextPeer(n, p, FALSE)} :
          /\ Serving(p) => CanEnter(p)
          /\ SetNodeState(n, r)
          /\ missed' = MissedAfter(Appended(commits[n], r.db.commits))
          /\ IF r.raised
               THEN /\ pc' = [pc EXCEPT ![n][t] = IF t = "hb" THEN "dead" ELSE "idle"]
                    /\ lock' = [lock EXCEPT ![n] = "free"]
                    /\ peer' = [peer EXCEPT ![n][t] = 0]
               ELSE /\ pc' = [pc EXCEPT ![n][t] = IF next = 0 THEN "bcast" ELSE "sync"]
                    /\ peer' = [peer EXCEPT ![n][t] =
                          IF next = 0 THEN NextPeer(n, 0, FALSE) ELSE next]
                    /\ UNCHANGED lock
    /\ UNCHANGED <<tx, leader_id, election_in_progress, status, election_accepted,
                   hbLeader, lastCall, responded, announce, pending, nCrash, nExec, timedOut>>
    /\ UNCHANGED <<client, shutdown, lateLeader>>

\* a thread of p stands between the last Election RPC of its round and the
\* if election_accepted test: the loop over the higher peers is over
RpcsSent(p) == \E u \in Threads : pc[p][u] = "decide"

\* stub.Coordinator(leader_id=self, commit_history=commits) to the next peer;
\* the handler runs on the peer under the peer's mutex
ElBroadcast(n, t) ==
    /\ status[n] = "up"
    /\ pc[n][t] = "bcast"
    /\ \E p \in {peer[n][t]} : \E next \in {NextPeer(n, p, FALSE)} :
       \E c \in {Coordinator([db |-> Db(p), request_ids |-> request_ids[p],
                              leader_id |-> leader_id[p]],
                             p, n, get_all_commits(commits[n]))} :
          /\ (Serving(p) /\ CoordinatorAssert(p, n)) => CanEnter(p)
          /\ IF Serving(p)
               THEN /\ SetNodeState(p, c)
                    /\ leader_id' = [leader_id EXCEPT ![p] = c.leader_id]
                    /\ missed' = MissedAfter(Appended(commits[p], c.db.commits))
                    /\ announce' = [announce EXCEPT ![n][p] =
                          IF c.ack THEN "ack" ELSE "error"]
                    /\ lateLeader' = [lateLeader EXCEPT ![p] =
                          IF ~c.ack THEN @
                          ELSE IF RpcsSent(p) THEN c.leader_id ELSE None]
               ELSE /\ announce' = [announce EXCEPT ![n][p] = "down"]
                    /\ UNCHANGED <<dbVars, request_ids, leader_id, missed, lateLeader>>
          /\ pc' = [pc EXCEPT ![n][t] = IF next = 0 THEN "finish" ELSE "bcast"]
          /\ peer' = [peer EXCEPT ![n][t] = next]
    /\ UNCHANGED <<tx, election_in_progress, status, lock, election_accepted,
                   hbLeader, lastCall, responded, pending, nCrash, nExec, timedOut>>
    /\ UNCHANGED <<client, shutdown>>

\* the peer's process is killed while its Coordinator handler has applied
\* only the first k of the new commits (each is a transaction of its own)
CoordinatorKilled(n, t, k) ==
    /\ status[n] = "up"
    /\ pc[n][t] = "bcast"
    /\ nCrash < MaxCrash
    /\ LET p == peer[n][t]
           next == NextPeer(n, p, FALSE)
           new == NewCommits(get_all_commits(commits[n]), get_latest_commit_id(commits[p]))
       IN /\ Serving(p) /\ CoordinatorAssert(p, n) /\ CanEnter(p)
          /\ k \in 1..(Len(new) - 1)
          /\ \E a \in {apply_commits(StateOf(p), SubSeq(new, 1, k))} :
                /\ users' = [users EXCEPT ![p] = a.db.users]
                /\ messages' = [messages EXCEPT ![p] = a.db.messages]
                /\ commits' = [commits EXCEPT ![p] = a.db.commits]
                /\ missed' = [MissedAfter(Appended(commits[p], a.db.commits))
                                 EXCEPT ![p] = {}]
          /\ nCrash' = nCrash + 1
          /\ status' = [status EXCEPT ![p] = "down"]
          /\ request_ids' = [request_ids EXCEPT ![p] = {}]
          /\ leader_id' = [leader_id EXCEPT ![p] = None]
          /\ election_in_progress' = [election_in_progress EXCEPT ![p] = FALSE]
          /\ lock' = [lock EXCEPT ![p] = "free"]
          /\ pc' = [pc EXCEPT ![p] = IdlePc,
                              ![n][t] = IF next = 0 THEN "finish" ELSE "bcast"]
          /\ election_accepted' = [election_accepted EXCEPT ![p] = NoLocals]
          /\ peer' = [peer EXCEPT ![p] = ZeroCursor, ![n][t] = next]
          /\ hbLeader' = [hbLeader EXCEPT ![p] = None]
          /\ responded' = [responded EXCEPT ![p] = NoResponse]
          /\ announce' = [announce EXCEPT ![p] = NoAnnounce, ![n][p] = "down"]
          /\ pending' = [pending EXCEPT ![p] = 0]
    /\ UNCHANGED <<tx, lastCall, nExec, timedOut>>
    /\ shutdown' = [shutdown EXCEPT ![peer[n][t]] = "clear"]
    /\ lateLeader' = [lateLeader EXCEPT ![peer[n][t]] = None]
    /\ UNCHANGED client

\* self.leader_id = self.server_id; self.election_in_progress = False; the
\* critical section ends
ElFinish(n, t) ==
    /\ status[n] = "up"
    /\ pc[n][t] = "finish"
    /\ leader_id' = [leader_id EXCEPT ![n] = n]
    /\ election_in_progress' = [election_in_progress EXCEPT ![n] = FALSE]
    /\ lock' = [lock EXCEPT ![n] = "free"]
    /\ pc' = [pc EXCEPT ![n][t] = Rest(t)]
    /\ announce' = [announce EXCEPT ![n] = NoAnnounce]
    /\ lateLeader' = [lateLeader EXCEPT ![n] = None]
    /\ UNCHANGED <<dbVars, tx, request_ids, status, election_accepted, peer, hbLeader,
                   lastCall, missed, responded, pending, nCrash, nExec, timedOut>>
    /\ UNCHANGED <<client, shutdown>>

\* ------------------------------------------------------------------------
\* stop(): self.shutdown.set(); self.heartbeat_thread.join()
\* ------------------------------------------------------------------------

\* self.shutdown.set()
Stop(n) ==
    /\ status[n] = "up"
    /\ shutdown[n] = "clear"
    /\ shutdown' = [shutdown EXCEPT ![n] = "set"]
    /\ UNCHANGED <<nodeVars, client>>

\* the heartbeat loop finds the signal set at the top of its next turn and
\* send_heartbeats returns
HbExit(n) ==
    /\ status[n] = "up"
    /\ pc[n]["hb"] = "sleep"
    /\ shutdown[n] = "set"
    /\ pc' = [pc EXCEPT ![n]["hb"] = "exited"]
    /\ UNCHANGED <<dbVars, tx, request_ids, leader_id, election_in_progress, status,
                   lock, election_accepted, peer, hbLeader, lastCall, missed, responded,
                   announce, pending, nCrash, nExec, timedOut>>
    /\ UNCHANGED <<client, shutdown, lateLeader>>

\* self.heartbeat_thread.join() returns, and with it stop()
StopReturn(n) ==
    /\ status[n] = "up"
    /\ shutdown[n] = "set"
    /\ pc[n]["hb"] = "exited"
    /\ shutdown' = [shutdown EXCEPT ![n] = "joined"]
    /\ UNCHANGED <<nodeVars, client>>

\* ------------------------------------------------------------------------
\* The api client: send_request(request) walks the nodes in id order
\* ------------------------------------------------------------------------

\* for server_id, addr in id_to_addr.items(): the node after n, 0 at the end
AfterNode(n) == IF n < NumNodes THEN n + 1 ELSE 0

\* json.loads(response.response): the "" a node answers for an id it has
\* seen is not a JSON document
ParseResponse(resp) == IF resp.kind = "empty" THEN Raised("JSONDecodeError") ELSE resp

\* an api function builds the request under a new uuid and calls send_request
ClientCall(request) ==
    /\ client.pc # "loop"
    /\ request.id \notin client.issued
    /\ client' = [pc |-> "loop", request |-> request, at |-> 1,
                  response |-> NoneResponse, tried |-> {}, answered |-> {},
                  issued |-> client.issued \cup {request.id}]
    /\ UNCHANGED <<nodeVars, shutdown>>

\* one turn of the loop: stub.Execute on the node at hand. A node that is
\* not serving gives RpcError UNAVAILABLE and is passed over; a handler that
\* raises gives UNKNOWN and sys.exit(1); an answer is parsed and kept
ClientSend ==
    /\ client.pc = "loop"
    /\ client.at # 0
    /\ \E n \in {client.at} :
          IF ~Serving(n)
            THEN /\ client' = [client EXCEPT !.tried = @ \cup {n}, !.at = AfterNode(n)]
                 /\ UNCHANGED nodeVars
            ELSE /\ CanEnter(n)
                 /\ nExec < MaxExec
                 /\ nExec' = nExec + 1
                 /\ \E r \in {execute_request(StateOf(n), client.request)} :
                    \E parsed \in {ParseResponse(r.resp)} :
                       /\ SetNodeState(n, r)
                       /\ missed' = MissedAfter(Appended(commits[n], r.db.commits))
                       /\ client' =
                             IF r.resp.kind = "raise"
                               THEN [client EXCEPT !.tried = @ \cup {n}, !.pc = "exit"]
                             ELSE IF parsed.kind = "raise"
                               THEN [client EXCEPT !.tried = @ \cup {n}, !.pc = "raised"]
                             ELSE [client EXCEPT !.tried = @ \cup {n},
                                                 !.answered = @ \cup {n},
                                                 !.response = parsed,
                                                 !.at = AfterNode(n)]
                 /\ UNCHANGED <<tx, leader_id, election_in_progress, status, lock, pc,
                                election_accepted, peer, hbLeader, lastCall, responded,
                                announce, pending, nCrash, timedOut, lateLeader>>
    /\ UNCHANGED shutdown

\* assert isinstance(response, dict); return response
ClientReturn ==
    /\ client.pc = "loop"
    /\ client.at = 0
    /\ client' = [client EXCEPT !.pc = IF client.response = NoneResponse
                                         THEN "raised" ELSE "returned"]
    /\ UNCHANGED <<nodeVars, shutdown>>

\* ------------------------------------------------------------------------
\* Specifications
\* ------------------------------------------------------------------------

\* the steps of the nodes in S: kills, restarts, heartbeat monitor, elections
ClusterStep(S) ==
    \/ \E n \in S : Crash(n)
    \/ \E n \in S : Restart(n)
    \/ \E n \in S : InitSync(n)
    \/ \E n \in S : HbSnapshot(n)
    \/ \E n \in S : HbProbe(n)
    \/ \E n \in S : HbClear(n)
    \/ \E n \in S, t \in Threads : ElStart(n, t)
    \/ \E n \in S, t \in Threads, answered \in BOOLEAN : ElSend(n, t, answered)
    \/ \E n \in S, t \in Threads : ElWin(n, t)
    \/ \E n \in S, t \in Threads : ElLose(n, t)
    \/ \E n \in S, t \in Threads : ElSync(n, t)
    \/ \E n \in S, t \in Threads : ElBroadcast(n, t)
    \/ \E n \in S, t \in Threads : ElFinish(n, t)

\* the whole cluster started, no client traffic
NextElection == ClusterStep(Nodes)

SpecElection == Init /\ [][NextElection]_vars

\* the nodes the operator has started in the replication runs
Started == 1..2

\* start(1); start(2): server 3 is not running
InitReplication ==
    /\ users = [n \in Nodes |-> {}]
    /\ messages = [n \in Nodes |-> {}]
    /\ commits = [n \in Nodes |-> <<>>]
    /\ tx = [n \in Nodes |-> NoTx]
    /\ request_ids = [n \in Nodes |-> {}]
    /\ leader_id = [n \in Nodes |-> None]
    /\ election_in_progress = [n \in Nodes |-> FALSE]
    /\ status = [n \in Nodes |-> IF n \in Started THEN "up" ELSE "down"]
    /\ lock = [n \in Nodes |-> "free"]
    /\ pc = [n \in Nodes |-> IF n \in Started THEN [IdlePc EXCEPT !["hb"] = "sleep"]
                             ELSE IdlePc]
    /\ election_accepted = [n \in Nodes |-> NoLocals]
    /\ peer = [n \in Nodes |-> ZeroCursor]
    /\ hbLeader = [n \in Nodes |-> None]
    /\ lastCall = NoCall
    /\ missed = [n \in Nodes |-> {}]
    /\ responded = [n \in Nodes |-> NoResponse]
    /\ announce = [n \in Nodes |-> NoAnnounce]
    /\ pending = [n \in Nodes |-> 0]
    /\ nCrash = 0
    /\ nExec = 0
    /\ timedOut = FALSE
    /\ client = NoClient
    /\ shutdown = [n \in Nodes |-> "clear"]
    /\ lateLeader = [n \in Nodes |-> None]

\* the started nodes, clients delivering requests to them, and kills that
\* land inside a Coordinator merge
NextReplication ==
    \/ ClusterStep(Started)
    \/ \E n \in Started, request \in ClusterRequests : Execute(n, request)
    \/ \E n \in Started, t \in Threads, k \in 1..Cardinality(ClusterRequests) :
          CoordinatorKilled(n, t, k)

SpecReplication == InitReplication /\ [][NextReplication]_vars

\* the started nodes and one api client calling send_request
NextClient ==
    \/ ClusterStep(Started)
    \/ \E request \in ClientRequests : ClientCall(request)
    \/ ClientSend
    \/ ClientReturn

SpecClient == InitReplication /\ [][NextClient]_vars

\* every step the heartbeat thread of node n can take
HeartbeatThread(n) ==
    \/ HbSnapshot(n)
    \/ HbProbe(n)
    \/ HbClear(n)
    \/ HbExit(n)
    \/ ElStart(n, "hb")
    \/ \E answered \in BOOLEAN : ElSend(n, "hb", answered)
    \/ ElWin(n, "hb")
    \/ ElLose(n, "hb")
    \/ ElSync(n, "hb")
    \/ ElBroadcast(n, "hb")
    \/ ElFinish(n, "hb")

\* every step a thread spawned by the Election handler of node n can take
ElectionThread(n, t) ==
    \/ ElStart(n, t)
    \/ \E answered \in BOOLEAN : ElSend(n, t, answered)
    \/ ElWin(n, t)
    \/ ElLose(n, t)
    \/ ElSync(n, t)
    \/ ElBroadcast(n, t)
    \/ ElFinish(n, t)

\* the started nodes, on each of which stop() may be called
NextShutdown ==
    \/ ClusterStep(Started)
    \/ \E n \in Started : Stop(n)
    \/ \E n \in Started : HbExit(n)
    \/ \E n \in Started : StopReturn(n)

\* every thread that can take a step keeps being scheduled, a thread that
\* waits for a mutex gets it if it is free again and again, and a
\* constructor or a join that can go on does; kills, restarts and calls of
\* stop() are up to the operator
FairThreads ==
    \A n \in Started :
        /\ SF_vars(HeartbeatThread(n))
        /\ \A t \in Spawned : SF_vars(ElectionThread(n, t))
        /\ WF_vars(InitSync(n))
        /\ WF_vars(StopReturn(n))

SpecShutdown == InitReplication /\ [][NextShutdown]_vars /\ FairThreads

\* the requests clients have sent before a leader change: two creations of
\* user a under different ids and a deletion of a
CatchUpRequests == {ReqCreateA, ReqCreateA2, ReqDeleteA}

\* the orders in which a node can have received some of them, each once
Deliveries ==
    {s \in UNION {[1..k -> CatchUpRequests] : k \in 0..MaxDeliveries} :
        \A i, j \in DOMAIN s : i # j => s[i] # s[j]}

RECURSIVE Executed(_, _)
\* the state st = [db, request_ids] of a node after its Execute handler has
\* answered the requests of a sequence in order
Executed(st, requests) ==
    IF requests = <<>> THEN st
    ELSE The({Executed([db |-> r.db, request_ids |-> r.request_ids], Tail(requests)) :
              r \in {execute_request(st, Head(requests))}})

\* nodes 1 and 2 have served clients, each its own deliveries, under leader
\* 3; node 3 has been killed and both heartbeat monitors have cleared
\* leader_id
InitCatchUp ==
    /\ \E s1, s2 \in Deliveries :
       \E st1 \in {Executed([db |-> EmptyDb, request_ids |-> {}], s1)} :
       \E st2 \in {Executed([db |-> EmptyDb, request_ids |-> {}], s2)} :
          /\ users = [n \in Nodes |-> IF n = 1 THEN st1.db.users
                                      ELSE IF n = 2 THEN st2.db.users ELSE {}]
          /\ messages = [n \in Nodes |-> IF n = 1 THEN st1.db.messages
                                         ELSE IF n = 2 THEN st2.db.messages ELSE {}]
          /\ commits = [n \in Nodes |-> IF n = 1 THEN st1.db.commits
                                        ELSE IF n = 2 THEN st2.db.commits ELSE <<>>]
          /\ request_ids = [n \in Nodes |-> IF n = 1 THEN st1.request_ids
                                            ELSE IF n = 2 THEN st2.request_ids ELSE {}]
    /\ tx = [n \in Nodes |-> NoTx]
    /\ leader_id = [n \in Nodes |-> None]
    /\ election_in_progress = [n \in Nodes |-> FALSE]
    /\ status = [n \in Nodes |-> IF n \in Started THEN "up" ELSE "down"]
    /\ lock = [n \in Nodes |-> "free"]
    /\ pc = [n \in Nodes |-> IF n \in Started THEN [IdlePc EXCEPT !["hb"] = "sleep"]
                             ELSE IdlePc]
    /\ election_accepted = [n \in Nodes |-> NoLocals]
    /\ peer = [n \in Nodes |-> ZeroCursor]
    /\ hbLeader = [n \in Nodes |-> None]
    /\ lastCall = NoCall
    /\ missed = [n \in Nodes |-> {}]
    /\ responded = [n \in Nodes |-> NoResponse]
    /\ announce = [n \in Nodes |-> NoAnnounce]
    /\ pending = [n \in Nodes |-> 0]
    /\ nCrash = 0
    /\ nExec = 0
    /\ timedOut = FALSE
    /\ client = NoClient
    /\ shutdown = [n \in Nodes |-> "clear"]
    /\ lateLeader = [n \in Nodes |-> None]

\* the heartbeat monitors and the elections of the two nodes, nobody killed
NextCatchUp ==
    \/ \E n \in Started : HbSnapshot(n)
    \/ \E n \in Started : HbProbe(n)
    \/ \E n \in Started, t \in Threads : ElStart(n, t)
    \/ \E n \in Started, t \in Threads, answered \in BOOLEAN : ElSend(n, t, answered)
    \/ \E n \in Started, t \in Threads : ElWin(n, t)
    \/ \E n \in Started, t \in Threads : ElLose(n, t)
    \/ \E n \in Started, t \in Threads : ElSync(n, t)
    \/ \E n \in Started, t \in Threads : ElBroadcast(n, t)
    \/ \E n \in Started, t \in Threads : ElFinish(n, t)

SpecCatchUp == InitCatchUp /\ [][NextCatchUp]_vars

\* one node on its own (its peers are not running), its Execute handler
\* followed statement by statement, every kind of request
InitApplier ==
    /\ users = [n \in Nodes |-> {}]
    /\ messages = [n \in Nodes |-> {}]
    /\ commits = [n \in Nodes |-> <<>>]
    /\ tx = [n \in Nodes |-> NoTx]
    /\ request_ids = [n \in Nodes |-> {}]
    /\ leader_id = [n \in Nodes |-> None]
    /\ election_in_progress = [n \in Nodes |-> FALSE]
    /\ status = [n \in Nodes |-> IF n = 1 THEN "up" ELSE "down"]
    /\ lock = [n \in Nodes |-> "free"]
    /\ pc = [n \in Nodes |-> IF n = 1 THEN [IdlePc EXCEPT !["hb"] = "sleep"] ELSE IdlePc]
    /\ election_accepted = [n \in Nodes |-> NoLocals]
    /\ peer = [n \in Nodes |-> ZeroCursor]
    /\ hbLeader = [n \in Nodes |-> None]
    /\ lastCall = NoCall
    /\ missed = [n \in Nodes |-> {}]
    /\ responded = [n \in Nodes |-> NoResponse]
    /\ announce = [n \in Nodes |-> NoAnnounce]
    /\ pending = [n \in Nodes |-> 0]
    /\ nCrash = 0
    /\ nExec = 0
    /\ timedOut = FALSE
    /\ client = NoClient
    /\ shutdown = [n \in Nodes |-> "clear"]
    /\ lateLeader = [n \in Nodes |-> None]

NextApplier ==
    \/ \E request \in AllRequests : ExecuteBegin(1, request)
    \/ ExecuteStatement(1)
    \/ ExecuteCommit(1)
    \/ Crash(1)
    \/ Restart(1)
    \/ InitSync(1)

SpecApplier == InitApplier /\ [][NextApplier]_vars

\* one node on its own that opens a database file with rows in users and
\* messages (and an empty commits table), its Execute handler followed
\* statement by statement
InitStore ==
    /\ \E u \in StoredUsers, m \in StoredMessages :
          /\ users = [n \in Nodes |-> IF n = 1 THEN u ELSE {}]
          /\ messages = [n \in Nodes |-> IF n = 1 THEN m ELSE {}]
    /\ commits = [n \in Nodes |-> <<>>]
    /\ tx = [n \in Nodes |-> NoTx]
    /\ request_ids = [n \in Nodes |-> {}]
    /\ leader_id = [n \in Nodes |-> None]
    /\ election_in_progress = [n \in Nodes |-> FALSE]
    /\ status = [n \in Nodes |-> IF n = 1 THEN "up" ELSE "down"]
    /\ lock = [n \in Nodes |-> "free"]
    /\ pc = [n \in Nodes |-> IF n = 1 THEN [IdlePc EXCEPT !["hb"] = "sleep"] ELSE IdlePc]
    /\ election_accepted = [n \in Nodes |-> NoLocals]
    /\ peer = [n \in Nodes |-> ZeroCursor]
    /\ hbLeader = [n \in Nodes |-> None]
    /\ lastCall = NoCall
    /\ missed = [n \in Nodes |-> {}]
    /\ responded = [n \in Nodes |-> NoResponse]
    /\ announce = [n \in Nodes |-> NoAnnounce]
    /\ pending = [n \in Nodes |-> 0]
    /\ nCrash = 0
    /\ nExec = 0
    /\ timedOut = FALSE
    /\ client = NoClient
    /\ shutdown = [n \in Nodes |-> "clear"]
    /\ lateLeader = [n \in Nodes |-> None]

NextStore ==
    \/ \E request \in StoreRequests : ExecuteBegin(1, request)
    \/ ExecuteStatement(1)
    \/ ExecuteCommit(1)
    \/ Crash(1)
    \/ Restart(1)
    \/ InitSync(1)

SpecStore == InitStore /\ [][NextStore]_vars

\* nodes 1 and 2 serve clients; node 1 has opened a database file with rows
\* in users and messages (and an empty commits table), node 2 an empty one;
\* their Execute handlers are followed statement by statement
InitClients ==
    /\ \E u \in StoredUsers, m \in StoredMessages :
          /\ users = [n \in Nodes |-> IF n = 1 THEN u ELSE {}]
          /\ messages = [n \in Nodes |-> IF n = 1 THEN m ELSE {}]
    /\ commits = [n \in Nodes |-> <<>>]
    /\ tx = [n \in Nodes |-> NoTx]
    /\ request_ids = [n \in Nodes |-> {}]
    /\ leader_id = [n \in Nodes |-> None]
    /\ election_in_progress = [n \in Nodes |-> FALSE]
    /\ status = [n \in Nodes |-> IF n \in Started THEN "up" ELSE "down"]
    /\ lock = [n \in Nodes |-> "free"]
    /\ pc = [n \in Nodes |-> IF n \in Started THEN [IdlePc EXCEPT !["hb"] = "sleep"]
                             ELSE IdlePc]
    /\ election_accepted = [n \in Nodes |-> NoLocals]
    /\ peer = [n \in Nodes |-> ZeroCursor]
    /\ hbLeader = [n \in Nodes |-> None]
    /\ lastCall = NoCall
    /\ missed = [n \in Nodes |-> {}]
    /\ responded = [n \in Nodes |-> NoResponse]
    /\ announce = [n \in Nodes |-> NoAnnounce]
    /\ pending = [n \in Nodes |-> 0]
    /\ nCrash = 0
    /\ nExec = 0
    /\ timedOut = FALSE
    /\ client = NoClient
    /\ shutdown = [n \in Nodes |-> "clear"]
    /\ lateLeader = [n \in Nodes |-> None]

NextClients ==
    \/ \E n \in Started, request \in StoreRequests : ExecuteBegin(n, request)
    \/ \E n \in Started : ExecuteStatement(n)
    \/ \E n \in Started : ExecuteCommit(n)

SpecClients == InitClients /\ [][NextClients]_vars

TypeOK ==
    /\ \A n \in Nodes : status[n] \in {"down", "init", "up"}
    /\ \A n \in Nodes : lock[n] \in {"free", "rpc"} \cup Threads
    /\ \A n \in Nodes : leader_id[n] \in {None} \cup Nodes
    /\ timedOut \in BOOLEAN


\* ------------------------------------------------------------------------
\* Properties
\* ------------------------------------------------------------------------

DbNext(n) == [users |-> users'[n], messages |-> messages'[n], commits |-> commits'[n]]

IsPrefix(s1, s2) == Len(s1) <= Len(s2) /\ SubSeq(s2, 1, Len(s1)) = s1

RequestById(id) == CHOOSE r \in AllRequests \cup StoreRequests : r.id = id

\* a request a client library can produce: a known request_type and, for
\* AUTH, a known action_type
WellFormed(request) ==
    /\ request.request_type \in {"AUTH", "GET_MESSAGES", "LIST_USERS", "SEND_MESSAGE",
                                 "READ_MESSAGES", "DELETE_MESSAGES", "DELETE_USER"}
    /\ request.request_type = "AUTH" => request.action_type \in {"CREATE_USER", "LOGIN"}

\* C1: when a node answers a well-formed request whose id it has not seen and
\* the very next call on that node carries the same request, the first call
\* returned a status response, the second returns the empty response, and the
\* second leaves users, messages and commits as the first left them.
IdempotentApply ==
    [][(/\ lastCall.call > 0
        /\ lastCall.fresh
        /\ WellFormed(RequestById(lastCall.id))
        /\ lastCall'.call = lastCall.call + 1
        /\ lastCall'.node = lastCall.node
        /\ lastCall'.id = lastCall.id)
       => (/\ lastCall.resp.kind = "status"
           /\ lastCall'.resp = EmptyResponse
           /\ dbVars' = dbVars)]_vars

\* C2: no request id occurs twice in the commit log of a node.
NoDuplicateCommit ==
    \A n \in Nodes : \A i, j \in 1..Len(commits[n]) :
        i # j => commits[n][i].request.id # commits[n][j].request.id

\* a follower acknowledged a Coordinator whose history holds, beyond the end
\* of the follower's log, a request the follower's log already has
MergeSkippedDuplicate ==
    \E n, p \in Nodes :
        /\ announce[n][p] = "ack"
        /\ \E j \in 1..Len(commits[n]) :
              /\ j > Len(commits[p])
              /\ commits[n][j].request.id \in get_request_ids(commits[p])

\* C3: when the process is killed while a mutating request's transaction is
\* open, the database then shows either the state before the request or the
\* state with both its mutation and its commit entry.
AtomicOnCrash ==
    [][\A n \in Nodes :
          (tx[n].active /\ status'[n] = "down")
          => DbNext(n) \in {tx[n].before, Transaction(tx[n].before, tx[n].request).db}]_vars

\* the node was killed between the mutation and the insert into commits
KilledBetweenStatements ==
    /\ lastCall.resp = Raised("Killed")
    /\ lastCall.stmts = 1
    /\ status[lastCall.node] = "down"

\* C4: the commit log of a node carries seq 1..n in order, a step never
\* removes or changes an entry, and a new entry's seq exceeds every earlier one.
CommitLogAppendOnly ==
    /\ [](\A n \in Nodes : \A i \in 1..Len(commits[n]) : commits[n][i].id = i)
    /\ [][\A n \in Nodes :
             /\ IsPrefix(commits[n], commits'[n])
             /\ \A j \in (Len(commits[n]) + 1)..Len(commits'[n]) :
                   commits'[n][j].id > get_latest_commit_id(SubSeq(commits'[n], 1, j - 1))]_vars

\* a log of two entries or more on a node that took part of it from a
\* Coordinator merge
LogGrownByMerge ==
    \E n, p \in Nodes :
        /\ announce[n][p] = "ack"
        /\ Len(commits[p]) >= 2
        /\ Len(commits[n]) + Len(commits[p]) > nExec

\* a thread of start_election that is past the election_in_progress check
PastCheck(n, t) == pc[n][t] \in {"elect", "decide", "sync", "bcast", "finish"}

\* a thread takes the lock at the top of start_election in this step
TriggerStep(n, t) ==
    /\ status[n] = "up"
    /\ status'[n] = "up"
    /\ IF t = "hb"
         THEN pc[n][t] = "start" /\ pc'[n][t] # "start"
         ELSE pending'[n] < pending[n]

\* C5: on each node at most one thread is past the election_in_progress
\* check, and a trigger that finds the flag set returns: no thread enters or
\* leaves a round, no RPC is sent (no cursor moves, no peer gets a thread),
\* and leader_id, the flag and the database are as before.
ElectionSingleFlight ==
    /\ [](\A n \in Nodes : Cardinality({t \in Threads : PastCheck(n, t)}) <= 1)
    /\ [][\A n \in Nodes, t \in Threads :
             (TriggerStep(n, t) /\ election_in_progress[n])
             => /\ \A u \in Threads : PastCheck(n, u)' <=> PastCheck(n, u)
                /\ peer' = peer
                /\ \A m \in Nodes \ {n} : pending'[m] = pending[m]
                /\ leader_id'[n] = leader_id[n]
                /\ election_in_progress'[n]
                /\ dbVars' = dbVars]_vars

\* the heartbeat thread is about to trigger an election while the thread an
\* Election handler spawned is running one
TriggerDuringElection ==
    \E n \in Nodes :
        /\ election_in_progress[n]
        /\ PastCheck(n, "e1")
        /\ pc[n]["hb"] = "start"

\* C6: a serving node's leader_id is never below its own id, and a
\* Coordinator that names a leader not above the receiver is answered with
\* an error and leaves the receiver's leader_id, users, messages, commits
\* and request_ids as they were.
CoordinatorRejectsLower ==
    /\ [](\A p \in Nodes : leader_id[p] = None \/ leader_id[p] >= p)
    /\ [][\A n, p \in Nodes :
             (announce'[n][p] = "error" /\ announce[n][p] # "error")
             => /\ n <= p
                /\ leader_id'[p] = leader_id[p]
                /\ DbNext(p) = Db(p)
                /\ request_ids'[p] = request_ids[p]]_vars

\* a node announced itself to a serving peer with a higher id and was refused
LowerAnnouncementRefused ==
    \E n, p \in Nodes :
        /\ n < p
        /\ announce[n][p] = "error"
        /\ status[p] = "up"

\* C7: in the step in which a node acknowledges Coordinator(n, history) it
\* sets leader_id to n and passes to the applier, in seq order, the commits of
\* the history above the max seq it had when the handler began; the handler
\* finds the node's mutex free and leaves it free.
CoordinatorMerges ==
    [][\A n, p \in Nodes :
          (announce'[n][p] = "ack" /\ announce[n][p] # "ack")
          => LET latest == get_latest_commit_id(commits[p])
                 new == SelectSeq(commits[n], LAMBDA c : c.id > latest)
                 a == apply_commits(StateOf(p), new)
             IN /\ leader_id'[p] = n
                /\ DbNext(p) = a.db
                /\ request_ids'[p] = a.request_ids
                /\ lock[p] = "free"
                /\ lock'[p] = "free"]_vars

\* a follower has acknowledged its leader and the two logs hold more entries
\* than clients delivered: the merge applied at least one commit
MergeApplied ==
    \E n, p \in Nodes :
        /\ announce[n][p] = "ack"
        /\ leader_id[p] = n
        /\ commits[p] # <<>>
        /\ Len(commits[n]) + Len(commits[p]) > nExec

Live == {n \in Nodes : status[n] = "up"}

\* no RPC between two serving nodes has failed, nothing is in progress and
\* nothing will change as long as nobody is killed or started: no node is
\* starting, every thread sleeps, no election is pending or flagged, and
\* every live node's leader is a live node (so every heartbeat succeeds)
AtRest ==
    /\ Live # {}
    /\ ~timedOut
    /\ \A n \in Nodes : status[n] # "init"
    /\ \A n \in Live :
          /\ pc[n]["hb"] = "sleep"
          /\ \A t \in Spawned : pc[n][t] = "idle"
          /\ pending[n] = 0
          /\ ~election_in_progress[n]
          /\ lock[n] = "free"
          /\ leader_id[n] \in Live

\* C9: once the cluster is at rest, every live node's leader_id is the
\* highest id among the live nodes.
LeaderAgreement ==
    AtRest => \A n \in Live : leader_id[n] = SetMax(Live)

\* C10: when a starting node's synchronize_commits has called a serving
\* peer, every request that was committed while the node was down and that
\* is in that peer's log is in the node's log.
CatchUpOnRestart ==
    [][\A n, p \in Nodes :
          (/\ status[n] = "init"
           /\ peer[n]["main"] = p
           /\ peer'[n]["main"] # p
           /\ status[p] = "up")
          => (missed[n] \cap get_request_ids(commits[p])) \subseteq
                get_request_ids(commits'[n])]_vars

\* C11: on every serving node with a log, GetCommits(latest_commit_id)
\* succeeds for every latest_commit_id up to the end of the log and returns
\* exactly the entries above it, in log order.
GetCommitsReturnsSuffix ==
    \A p \in Nodes :
        (status[p] = "up" /\ commits[p] # <<>>)
        => \A latest \in 0..Len(commits[p]) :
              \E g \in {GetCommits(commits[p], latest)} :
                  /\ g.ok
                  /\ g.commits = SubSeq(commits[p], latest + 1, Len(commits[p]))

\* the heartbeat thread of n moves in this step and n keeps running
HbStep(n) == status[n] = "up" /\ status'[n] = "up" /\ pc'[n]["hb"] # pc[n]["hb"]

OutboundRpcBounded ==
    \A n \in Nodes :
        status[n] = "up"
        => /\ pc[n]["hb"] = "probe" => ENABLED HbProbe(n)
           /\ \A t \in Threads :
                 /\ pc[n][t] = "elect"
                    => ENABLED (ElSend(n, t, TRUE) \/ ElSend(n, t, FALSE))
                 /\ pc[n][t] = "sync" => ENABLED ElSync(n, t)
                 /\ pc[n][t] = "bcast" => ENABLED ElBroadcast(n, t)

\* thread t of n holds n's mutex inside an outbound GetCommits or Coordinator
\* RPC to p, and p's handler for it has to take p's mutex
HeldWaitingOn(n, t, p) ==
    /\ status[n] = "up"
    /\ lock[n] = t
    /\ pc[n][t] \in {"sync", "bcast"}
    /\ peer[n][t] = p
    /\ Serving(p)
    /\ pc[n][t] = "bcast" => CoordinatorAssert(p, n)

\* C14: no two nodes each hold their own mutex while blocked in a GetCommits
\* or Coordinator RPC to the other, whose handler waits for the mutex the
\* other holds; and every election round that starts clears
\* election_in_progress again.
NoCrossNodeDeadlock ==
    \A n, p \in Nodes :
        n # p => \A t, u \in Threads : ~(HeldWaitingOn(n, t, p) /\ HeldWaitingOn(p, u, n))

\* the call that returns in this step: node n, still running, ends the
\* handling of a request whose id it had not seen
FreshReturn(n, request) ==
    /\ status'[n] = "up"
    /\ lastCall' # lastCall
    /\ lastCall'.node = n
    /\ lastCall'.id = request.id
    /\ lastCall'.fresh

\* the request is one of the two the handlers validate, and its validation
\* fails on db: the message of the error
ValidationError(db, request) ==
    IF request.request_type = "AUTH" /\ request.action_type = "CREATE_USER"
         /\ UserExists(db, request.username)
      THEN "Username already exists."
    ELSE IF request.request_type = "SEND_MESSAGE"
              /\ ~UserExists(db, request.message.recipient)
      THEN "Recipient does not exist."
    ELSE "-"

\* C15 (as amended): an execution of CREATE_USER with an existing username,
\* or of SEND_MESSAGE to a recipient that does not exist, returns ERROR with
\* its message and leaves users, messages and commits of every node as they
\* were, so the failing execution appends nothing to a commit log.
ValidationErrorFrame ==
    [][\A n \in Nodes : \A request \in AllRequests \cup StoreRequests :
          (FreshReturn(n, request) /\ ValidationError(Db(n), request) # "-")
          => /\ lastCall'.resp = create_error(ValidationError(Db(n), request))
             /\ lastCall'.stmts = 0
             /\ dbVars' = dbVars]_vars

\* a request was refused because the username exists already
ValidationErrorReturned ==
    /\ lastCall.fresh
    /\ lastCall.resp = create_error("Username already exists.")
    /\ UserExists(Db(lastCall.node), "a")

\* C15: a request that fails validation returns ERROR and leaves users,
\* messages and commits unchanged, and a request that a node has refused on
\* validation (the node has marked its id as seen and logged nothing for it)
\* is in no node's commit log.
ValidationFailedNeverLogged ==
    /\ ValidationErrorFrame
    /\ [](\A n, p \in Nodes : \A request \in StoreRequests :
            (/\ request.request_type \in {"AUTH", "SEND_MESSAGE"}
             /\ request.id \in request_ids[n]
             /\ request.id \notin get_request_ids(commits[n]))
            => request.id \notin get_request_ids(commits[p]))

\* LOGIN, GET_MESSAGES and LIST_USERS
NonMutating(request) ==
    \/ request.request_type = "AUTH" /\ request.action_type = "LOGIN"
    \/ request.request_type \in {"GET_MESSAGES", "LIST_USERS"}

\* C16: when a node answers a LOGIN, GET_MESSAGES or LIST_USERS whose id it
\* had not seen, users, messages and commits stay as they were and the id is
\* in request_ids afterwards, so that the same request delivered again to the
\* running node gets the empty response.
NonMutatingMarkedSeen ==
    [][\A n \in Nodes : \A request \in AllRequests :
          (FreshReturn(n, request) /\ NonMutating(request))
          => /\ dbVars' = dbVars
             /\ request.id \in request_ids'[n]
             /\ execute_request(StateOf(n), request)'.resp = EmptyResponse]_vars

\* C17: a LOGIN whose id the node had not seen returns OK exactly when the
\* username is in users with the submitted hash, and otherwise ERROR
\* "Invalid username or password.", a username that does not exist included.
LoginContract ==
    [][\A n \in Nodes : \A request \in AllRequests :
          (/\ FreshReturn(n, request)
           /\ request.request_type = "AUTH"
           /\ request.action_type = "LOGIN")
          => lastCall'.resp =
                IF [username |-> request.username, password |-> request.password]
                      \in users[n]
                  THEN Ok
                  ELSE create_error("Invalid username or password.")]_vars

\* what GET_MESSAGES(username) answers on db
MessagesOf(db, username) ==
    handle_get_messages(db, [ReqGet EXCEPT !.username = username]).resp.messages

\* C18: a SEND_MESSAGE of m to a recipient in users, whose id the node had
\* not seen, returns OK, and GET_MESSAGES(recipient) on that node then lists
\* m with read = false among exactly the messages stored for the recipient,
\* in timestamp order.
SendThenGet ==
    [][\A n \in Nodes : \A request \in StoreRequests :
          (/\ FreshReturn(n, request)
           /\ request.request_type = "SEND_MESSAGE"
           /\ UserExists(Db(n), request.message.recipient))
          => \E got \in {MessagesOf(DbNext(n), request.message.recipient)} :
                /\ lastCall'.resp = Ok
                /\ \E i \in 1..Len(got) :
                      got[i] = [sender |-> request.message.sender,
                                body |-> request.message.body,
                                timestamp |-> request.message.timestamp,
                                read |-> FALSE]
                /\ Len(got) = Cardinality({m \in messages'[n] :
                                              m.recipient = request.message.recipient})
                /\ \A i, j \in 1..Len(got) :
                      i < j => got[i].timestamp <= got[j].timestamp]_vars

\* the commit log holds a READ_MESSAGES with the ids of request under
\* another request id
ReadBefore(log, request) ==
    \E i \in 1..Len(log) :
        /\ log[i].request.request_type = "READ_MESSAGES"
        /\ log[i].request.message_ids = request.message_ids
        /\ log[i].request.id # request.id

\* C19: a READ_MESSAGES whose id the node had not seen returns OK, sets read
\* on every stored message whose id it lists and leaves every other message
\* and the users as they were; when the log already holds a READ_MESSAGES on
\* the same ids, the messages stay as they are; and no step of the node takes
\* read from true back to false.
ReadMessagesMarks ==
    /\ [][\A n \in Nodes : \A request \in StoreRequests :
             (FreshReturn(n, request) /\ request.request_type = "READ_MESSAGES")
             => /\ lastCall'.resp = Ok
                /\ Cardinality(messages'[n]) = Cardinality(tx[n].before.messages)
                /\ \A m \in tx[n].before.messages :
                      IF m.id \in request.message_ids
                        THEN [m EXCEPT !.read = TRUE] \in messages'[n]
                        ELSE m \in messages'[n]
                /\ users'[n] = tx[n].before.users
                /\ ReadBefore(commits[n], request)
                   => messages'[n] = tx[n].before.messages]_vars
    /\ [][\A n \in Nodes : \A m \in messages[n] :
             m.read => \A m2 \in messages'[n] : m2.id = m.id => m2.read]_vars

\* the second READ_MESSAGES on m1 has returned OK; m1 is stored as read and
\* m2, which neither of them listed, as unread
ReadTwice ==
    /\ lastCall.fresh
    /\ lastCall.id = ReqReadAgain.id
    /\ lastCall.resp = Ok
    /\ ReadBefore(commits[lastCall.node], ReqReadAgain)
    /\ [Row1 EXCEPT !.read = TRUE] \in messages[lastCall.node]
    /\ Row2 \in messages[lastCall.node]

SendRequestDelivers ==
    client.pc \in {"returned", "exit", "raised"}
    => /\ client.tried = Nodes
       /\ client.answered # {}
          => /\ client.pc = "returned"
             /\ client.response.kind = "status"

\* C22: a starting node reloads request_ids as the ids of its commit log;
\* until its initial synchronize_commits has gone through every peer, the
\* node handles no inbound RPC (no Coordinator is acknowledged or refused by
\* it, no Election spawns a thread on it, its leader_id, election flag,
\* mutex and open transaction stay as they are) and none of its threads,
\* the heartbeat monitor included, has taken a step; the node serves from
\* the step that ends the synchronization.
StartupOrdering ==
    /\ [](\A n \in Nodes :
            status[n] = "init"
            => /\ pc[n] = IdlePc
               /\ lock[n] = "free"
               /\ ~tx[n].active
               /\ pending[n] = 0
               /\ leader_id[n] = None
               /\ ~election_in_progress[n]
               /\ peer[n]["main"] # 0)
    /\ [][\A n \in Nodes :
             /\ (status[n] = "down" /\ status'[n] # "down")
                => /\ status'[n] = "init"
                   /\ request_ids'[n] = {commits[n][i].request.id : i \in 1..Len(commits[n])}
             /\ (status[n] = "init" /\ status'[n] = "up")
                => /\ NextPeer(n, peer[n]["main"], FALSE) = 0
                   /\ pc'[n]["hb"] = "sleep"
             /\ status[n] = "init"
                => \A m \in Nodes : announce'[m][n] \in {announce[m][n], "-", "down"}
             /\ status'[n] = "up" => status[n] \in {"init", "up"}]_vars

\* a restarted node with a commit log is inside its initial synchronization,
\* past the first peer, while a winner's Coordinator to it has failed
SynchronizingBeforeServing ==
    \E n, m \in Nodes :
        /\ status[n] = "init"
        /\ commits[n] # <<>>
        /\ request_ids[n] # {}
        /\ peer[n]["main"] # NextPeer(n, 0, FALSE)
        /\ announce[m][n] = "down"

\* thread t of node n is inside the winner's branch of start_election
Winning(n, t) == pc[n][t] \in {"sync", "bcast", "finish"}

ElectionEntryAndLoss ==
    /\ [](\A n \in Nodes : \A t \in Threads :
            pc[n][t] = "decide" => (election_accepted[n][t] <=> ~responded[n][t]))
    /\ [][\A n \in Nodes :
             /\ (~election_in_progress[n] /\ election_in_progress'[n])
                => leader_id'[n] = None
             /\ \A t \in Threads :
                  (/\ pc[n][t] = "decide" /\ pc'[n][t] # "decide"
                   /\ responded[n][t] /\ status'[n] = "up")
                  => /\ ~election_in_progress'[n]
                     /\ leader_id'[n] = leader_id[n]
                     /\ pc'[n][t] = Rest(t)
             /\ (/\ ~election_in_progress[n] /\ status[n] = "up" /\ status'[n] = "up"
                 /\ leader_id[n] = None /\ leader_id'[n] # None)
                => \E m \in Nodes :
                      /\ m > n
                      /\ leader_id'[n] = m
                      /\ announce'[m][n] = "ack"
                      /\ announce[m][n] # "ack"]_vars

\* a node has lost its round (it is back in its heartbeat sleep with the
\* flag clear and no leader) while the thread its Election RPC spawned on a
\* higher-id peer is still in that peer's election (no node was killed, and
\* only node 1 sends Election RPCs to node 2)
LostRound ==
    \E n, p \in Nodes :
        /\ n = 1 /\ p = 2
        /\ nCrash = 0
        /\ status[n] = "up"
        /\ pc[n]["hb"] = "sleep"
        /\ ~election_in_progress[n]
        /\ leader_id[n] = None
        /\ \E t \in Spawned : pc[p][t] \in {"elect", "decide", "sync", "bcast", "finish"}

\* C26: once stop() has set the shutdown signal on a node, the heartbeat
\* thread ends and stop() returns (or the process is killed first).
ShutdownTerminates ==
    \A n \in Nodes : (shutdown[n] = "set") ~> (shutdown[n] # "set")

\* C27: every Election RPC goes to a peer whose id is above the candidate's,
\* so the handler's assertion holds for each one delivered; a serving peer
\* can answer at once whatever holds its mutex and whether or not it is in an
\* election, and the answering step changes nothing on the peer but the
\* count of spawned threads that have yet to run start_election.
ElectionHandlerAcks ==
    /\ [](\A n \in Nodes : \A t \in Threads :
            (status[n] = "up" /\ pc[n][t] = "elect")
            => /\ peer[n][t] \in Nodes
               /\ ElectionAssert(peer[n][t], n)
               /\ Serving(peer[n][t]) => ENABLED ElSend(n, t, TRUE))
    /\ [][\A p \in Nodes :
             (pending'[p] > pending[p])
             => /\ lock'[p] = lock[p]
                /\ pc'[p] = pc[p]
                /\ election_in_progress'[p] = election_in_progress[p]
                /\ leader_id'[p] = leader_id[p]
                /\ tx'[p] = tx[p]
                /\ \E n \in Nodes : \E t \in Threads :
                      /\ n < p
                      /\ pc[n][t] = "elect" /\ peer[n][t] = p
                      /\ responded'[n][t]
                      /\ ~election_accepted'[n][t]]_vars

\* a peer has acknowledged an Election while a winner's critical section
\* holds its mutex, and the thread it spawned has yet to run
AckedWhileHeld ==
    \E n, p \in Nodes : \E t \in Threads :
        /\ p > n
        /\ status[n] = "up" /\ status[p] = "up"
        /\ nCrash = 0
        /\ pc[n][t] = "decide"
        /\ responded[n][t]
        /\ pending[p] > 0
        /\ lock[p] # "free"
        /\ p = NumNodes

\* the tables a node gets by applying a commit log, in seq order, to an
\* empty database with no request seen
Replay(log) == apply_commits([db |-> EmptyDb, request_ids |-> {}], log)

\* C28: on every node, replaying the node's commit log on empty tables goes
\* through without an exception and gives the node's users and messages.
ReplayDeterminism ==
    \A n \in Nodes :
        /\ ~Replay(commits[n]).raised
        /\ Replay(commits[n]).db.users = users[n]
        /\ Replay(commits[n]).db.messages = messages[n]

\* a node holds a user and a log of a creation, a deletion and a creation
RebuiltFromLog ==
    \E n \in Nodes :
        /\ Len(commits[n]) = 3
        /\ users[n] # {}
        /\ ~tx[n].active

\* the cases of the match in execute_request
KnownTypes == {"AUTH", "GET_MESSAGES", "LIST_USERS", "SEND_MESSAGE", "READ_MESSAGES",
               "DELETE_MESSAGES", "DELETE_USER"}

RequestsOf(log) == [i \in 1..Len(log) |-> log[i].request]

\* C30: when a follower whose commit log is a prefix of the attached
\* commit_history acknowledges a Coordinator, its log holds the requests of
\* commit_history in the same order and its users and messages are those of
\* the leader.
PrefixCatchUp ==
    [][\A n, p \in Nodes :
          (/\ announce'[n][p] = "ack" /\ announce[n][p] # "ack"
           /\ IsPrefix(commits[p], get_all_commits(commits[n])))
          => /\ RequestsOf(commits'[p]) = RequestsOf(get_all_commits(commits[n]))
             /\ users'[p] = users[n]
             /\ messages'[p] = messages[n]]_vars

\* C31: when a follower acknowledges a Coordinator, every request id of the
\* attached commit_history is in the follower's commit log or in its
\* request_ids, whatever the two logs held at the same seq positions.
MergeKnowsHistory ==
    [][\A n, p \in Nodes :
          (announce'[n][p] = "ack" /\ announce[n][p] # "ack")
          => \A i \in 1..Len(get_all_commits(commits[n])) :
                get_all_commits(commits[n])[i].request.id
                   \in get_request_ids(commits'[p]) \cup request_ids'[p]]_vars

\* C32: every Coordinator that reaches a serving node comes from a sender
\* with a higher id, so the handler's assertion leader_id > self holds for
\* each one delivered.
CoordinatorAssertHolds ==
    [][\A n, p \in Nodes :
          (announce'[n][p] \in {"ack", "error"} /\ announce'[n][p] # announce[n][p])
          => CoordinatorAssert(p, n)]_vars

\* C33: a node that accepted Coordinator(L), L above its own id, after its
\* running election round had sent all its Election RPCs does not end that
\* round by replacing leader_id = L with its own id.
LateCoordinatorStands ==
    [][\A n \in Nodes :
          (leader_id[n] > n /\ leader_id'[n] = n)
          => lateLeader[n] # leader_id[n]]_vars

\* C34: whenever no node has election_in_progress set and no winner is in
\* the middle of its Coordinator broadcast, at most one live node has
\* leader_id equal to its own id.
OneLeaderAtRest ==
    (/\ \A n \in Nodes : ~election_in_progress[n]
     /\ \A n \in Nodes : \A t \in Threads : pc[n][t] # "bcast")
    => Cardinality({n \in Live : leader_id[n] = n}) <= 1

\* C35: when the heartbeat thread's failure handling sets leader_id to None,
\* leader_id still named the peer that was probed: a leader that a
\* Coordinator installed after the snapshot is not erased.
ClearOnlyProbedLeader ==
    [][\A n \in Nodes :
          (/\ status[n] = "up" /\ status'[n] = "up"
           /\ pc[n]["hb"] = "clear" /\ pc'[n]["hb"] # "clear"
           /\ leader_id[n] # None /\ leader_id'[n] = None)
          => leader_id[n] = hbLeader[n]]_vars

\* C36: on a running node request_ids holds the id of every request in the
\* node's commit log, and a step that changes request_ids of a serving node
\* is taken by the holder of the node's mutex or by a handler that finds the
\* mutex free and holds it for the whole step.
SeenCoversLog ==
    /\ [](\A n \in Nodes :
             status[n] # "down" => get_request_ids(commits[n]) \subseteq request_ids[n])
    /\ [][\A n \in Nodes :
             (status[n] = "up" /\ status'[n] = "up" /\ request_ids'[n] # request_ids[n])
             => \/ lock[n] = "free" /\ ~tx[n].active
                \/ lock[n] = "rpc" /\ tx[n].active /\ ~tx'[n].active
                \/ \E t \in Threads :
                      lock[n] = t /\ pc[n][t] = "sync" /\ peer'[n][t] # peer[n][t]]_vars

\* a restarted node serves with a log it has reloaded its request_ids from,
\* and a node that a Coordinator has merged into holds a peer's commit
ReloadedAndMerged ==
    /\ nCrash > 0
    /\ \E n \in Nodes :
          /\ status[n] = "up"
          /\ commits[n] # <<>>
          /\ leader_id[n] \notin {None, n}
          /\ request_ids[n] = get_request_ids(commits[n])
          /\ Cardinality(request_ids[n]) = Cardinality(ClusterRequests)

\* C37: during the fan-out of a new request every serving node the client
\* sends to answers with a status object (OK or ERROR): never with the
\* empty response of the duplicate check, and never with no response, so
\* the client parses a status object at each node and goes on.
FanOutGetsStatus ==
    [][(client.pc = "loop" /\ client.at # 0 /\ Serving(client.at)
        /\ client'.tried # client.tried)
       => /\ client'.pc = "loop"
          /\ client.at \in client'.answered
          /\ client'.response.kind = "status"]_vars

\* C38: a request that a node answers with a validation error (CREATE_USER
\* with an existing username, SEND_MESSAGE to a recipient that does not
\* exist) is not added to the node's request_ids: only a request that was
\* applied is marked as seen, so a later delivery can still be applied.
RefusedNotMarkedSeen ==
    [][\A n \in Nodes : \A request \in AllRequests \cup StoreRequests :
          (FreshReturn(n, request) /\ ValidationError(Db(n), request) # "-")
          => ~IsDuplicate(request_ids'[n], request)]_vars

====
